---- MODULE Spec2Model ----
(***************************************************************************)
(* Resource processing pipeline of EduAssist-AI-BE.                        *)
(*                                                                         *)
(* State: the MongoDB collections "videos", "resources" and "transcripts", *)
(* the vector store, the queue of the Celery broker, the uploaded file     *)
(* at each storage locator, and the position of every upload request and   *)
(* every background task.  Every await of a handler is one step, so other  *)
(* requests and workers interleave between the database operations.        *)
(*                                                                         *)
(* Fault hypothesis: any stage inside a handler's try block may raise;     *)
(* the writes of the except block that records the failure reach the       *)
(* database (the branch "except: pass" is the double fault).               *)
(*                                                                         *)
(* Spec is the upload pipeline.  SpecDelete adds the two delete endpoints, *)
(* SpecTranscript the transcript update endpoint, each step by step.       *)
(* SpecSearch applies the retrieval functions to every store that          *)
(* indexing can build.                                                     *)
(***************************************************************************)
EXTENDS Integers, Sequences, FiniteSets, TLC

MaxRes == 1

Ids == 1..MaxRes

\* concurrent PUT /videos/{video_id}/transcript requests
MaxPut == 2

Clients == 1..MaxPut

\* videos, modules and vector-store entries of the retrieval specification,
\* and the largest top_k a caller of search_video_content passes
MaxVideos == 2
MaxModules == 2
MaxChunks == 4
MaxK == 2
\* entries of a store that holds more than a search returns
MaxRanked == 6
\* characters of a text handed to the chunker
MaxText == 7
\* largest word count of a chunk
MaxWords == 3

VideoIds == 1..MaxVideos
Modules == 1..MaxModules

\* module_id of a video uploaded without a module; video_id=None and the
\* metadata of an entry that has no video_id
NoModule == 0
NoVideo == 0

\* value of a field that is not set on a document ($unset / never written)
AbsentNum == -1
AbsentStr == "absent"

\* exception messages (str(e)) that the handlers can see
NoErr           == "none"
ErrNotFound     == "Video document not found"
ErrNotExist     == "Video file does not exist at path"
ErrNotSubscript == "'float' object is not subscriptable"
ErrDb           == "database operation failed"
ErrIndex        == "indexing failed"
ErrBroker       == "broker connection refused"
Unavailable     == "Processing service unavailable"

\* whether .delay() reaches the broker
BrokerStates == {"up", "down"}

\* what lies at a storage locator when the pipeline opens it
\*   missing : no file at the path
\*   speech  : audio is extracted and Whisper returns text
\*   silent  : audio is extracted, Whisper returns empty text
\*   mute    : the clip opens (duration > 0) but audio extraction fails
\*   corrupt : the clip does not open, no duration, audio extraction fails
FileStates == {"missing", "speech", "silent", "mute", "corrupt"}
\* and for a document: no readable file, a file with text, a file without text
DocStates == {"missing", "text", "blank"}

VARIABLES videos, resources, transcripts, vectors, queue, fs, req, task,
          del, put, dup, crs, module_of, found, idx, chunked

\* the delete requests, the transcript updates and the second deliveries
\* in flight
mgmt == <<del, put, dup, crs>>

\* the module of each video, the result of the last retrieval, the
\* indexing call under way and the chunker call
retrieval == <<module_of, found, idx, chunked>>

vars == <<videos, resources, transcripts, vectors, queue, fs, req, task, mgmt, retrieval>>

----------------------------------------------------------------------------
(* documents *)

NewDoc(type, storage_type, status, processed) ==
  [type |-> type, storage_type |-> storage_type, status |-> status,
   progress |-> AbsentNum, current_step |-> AbsentStr,
   estimated_time_remaining |-> AbsentNum, error_message |-> AbsentStr,
   duration_seconds |-> 0, processed_at |-> processed]

\* collection.insert_one
insert_one(coll, id, doc) == [j \in DOMAIN coll \cup {id} |-> IF j = id THEN doc ELSE coll[j]]

\* collection.update_one({"_id": id}, {"$set": ...}): no match, no change
SetError(coll, id, msg) ==
  IF id \in DOMAIN coll THEN [coll EXCEPT ![id].error_message = msg] ELSE coll

\* update_data that leaves the record in PROCESSING
SetFinal_StatusProcessing(coll, id, duration) ==
  IF id \in DOMAIN coll
  THEN [coll EXCEPT ![id].status = "PROCESSING", ![id].duration_seconds = duration,
                    ![id].processed_at = TRUE]
  ELSE coll

\* update_one({"_id": id}, {"$set": update_data}) with status COMPLETE,
\* duration_seconds and processed_at
SetFinal(coll, id, duration) ==
  IF id \in DOMAIN coll
  THEN [coll EXCEPT ![id].status = "COMPLETE", ![id].duration_seconds = duration,
                    ![id].processed_at = TRUE]
  ELSE coll

\* a status writer whose non-PROCESSING branch has no $unset
update_video_status_keep(coll, video_id, status, progress, current_step, estimated_time) ==
  IF video_id \notin DOMAIN coll THEN coll
  ELSE IF status = "PROCESSING"
  THEN [coll EXCEPT ![video_id].status = status,
                    ![video_id].progress = progress,
                    ![video_id].current_step = current_step,
                    ![video_id].estimated_time_remaining = estimated_time]
  ELSE [coll EXCEPT ![video_id].status = status]

\* tasks.update_video_status: always addresses the collection "videos"; the
\* message of a non-PROCESSING status is dropped and the transient fields unset
update_video_status(coll, video_id, status, progress, current_step, estimated_time) ==
  IF video_id \notin DOMAIN coll THEN coll
  ELSE IF status = "PROCESSING"
  THEN [coll EXCEPT ![video_id].status = status,
                    ![video_id].progress = progress,
                    ![video_id].current_step = current_step,
                    ![video_id].estimated_time_remaining = estimated_time]
  ELSE [coll EXCEPT ![video_id].status = status,
                    ![video_id].progress = AbsentNum,
                    ![video_id].current_step = AbsentStr,
                    ![video_id].estimated_time_remaining = AbsentNum]

\* a status endpoint that returns the stored fields without the defaults
get_video_processing_status_raw(videoId) ==
  IF videoId \notin DOMAIN videos
  THEN [code |-> 404, status |-> AbsentStr, progress |-> AbsentNum,
        currentStep |-> AbsentStr, estimatedTimeRemaining |-> AbsentNum,
        error |-> AbsentStr]
  ELSE LET video == videos[videoId] IN
       [code |-> 200, status |-> video.status,
        progress |-> IF video.status = "PROCESSING" THEN video.progress ELSE AbsentNum,
        currentStep |-> IF video.status = "PROCESSING" THEN video.current_step ELSE AbsentStr,
        estimatedTimeRemaining |-> IF video.status = "PROCESSING"
                                   THEN video.estimated_time_remaining ELSE AbsentNum,
        error |-> IF video.status = "FAILED" THEN video.error_message ELSE AbsentStr]

\* GET /videos/{videoId}/status
get_video_processing_status(videoId) ==
  IF videoId \notin DOMAIN videos
  THEN [code |-> 404, status |-> AbsentStr, progress |-> AbsentNum,
        currentStep |-> AbsentStr, estimatedTimeRemaining |-> AbsentNum,
        error |-> AbsentStr]
  ELSE LET video == videos[videoId] IN
       [code |-> 200, status |-> video.status,
        progress |-> IF video.status = "PROCESSING"
                     THEN (IF video.progress = AbsentNum THEN 0 ELSE video.progress)
                     ELSE AbsentNum,
        currentStep |-> IF video.status = "PROCESSING"
                        THEN (IF video.current_step = AbsentStr THEN "Initializing"
                              ELSE video.current_step)
                        ELSE AbsentStr,
        estimatedTimeRemaining |-> IF video.status = "PROCESSING"
                     THEN (IF video.estimated_time_remaining = AbsentNum THEN 180
                           ELSE video.estimated_time_remaining)
                     ELSE AbsentNum,
        error |-> IF video.status = "FAILED"
                  THEN (IF video.error_message = AbsentStr THEN "Processing failed"
                        ELSE video.error_message)
                  ELSE AbsentStr]

----------------------------------------------------------------------------
(* extraction *)

\* AudioProcessor.process_video_for_transcription: the transcription text,
\* None, or (audio extraction failed, duration known) the duration, a float
process_video_for_transcription(file) ==
  CASE file = "missing" -> "None"
    [] file = "speech"  -> "text"
    [] file = "silent"  -> "None"
    [] file = "mute"    -> "float"
    [] file = "corrupt" -> "None"

\* DocumentProcessor.process_document: the stripped text or None
process_document(file) ==
  CASE file = "missing" -> "None"
    [] file = "text"    -> "text"
    [] file = "blank"   -> "empty"

----------------------------------------------------------------------------
(* processes *)

\* req[i]: the upload request that created record i (ep: endpoint, type: the
\* resource type, st: storage type, pc: position, e: caught exception,
\* vc: video_content, code/status: the HTTP response once returned)
IdleReq  == [ep |-> "none", type |-> "none", st |-> "none", pc |-> "idle", e |-> NoErr,
             vc |-> "none", code |-> 0, status |-> AbsentStr]
\* task[i]: the run of process_video_task(i, ...) on a worker
IdleTask == [pc |-> "idle", st |-> "none", e |-> NoErr, vc |-> "none", result |-> "none"]
\* del[i]: the DELETE request for record i (quiet: no attempt on the record
\* was queued or running when the request arrived)
IdleDel  == [ep |-> "none", pc |-> "idle", st |-> "none", code |-> 0, quiet |-> FALSE]
\* put[c]: the transcript update sent by client c (existing: what its
\* find_one saw)
IdlePut  == [pc |-> "idle", video_id |-> NoVideo, existing |-> FALSE, code |-> 0]
\* crs: the DELETE request for the course (members: the videos of the course
\* when the request arrived, quiet: no attempt on one of them was queued or
\* running then, video_ids: what its find on the videos returned)
IdleCourse == [pc |-> "idle", members |-> {}, quiet |-> FALSE, video_ids |-> {}, code |-> 0]
\* idx: the call of add_video_transcript_to_rag / add_documents under way
\* (total: chunks of its text, next: index of the chunk to add, before:
\* entries the store held for the video when the call began)
IdleIdx  == [pc |-> "idle", source |-> "none", video_id |-> NoVideo, total |-> 0, next |-> 0,
             before |-> 0]
\* chunked: a call of chunk_text (fn: the class whose method is called)
IdleChunk == [pc |-> "idle", fn |-> "none", text |-> << >>, max_words |-> 0, overlap |-> 0,
              chunks |-> << >>]
\* found: the last retrieval (the search API or the module chat)
NoResult == [ep |-> "none", video_id |-> NoVideo, top_k |-> 0, module |-> NoModule,
             chunks |-> << >>]

Init ==
  /\ videos = << >>
  /\ resources = << >>
  /\ transcripts = << >>
  /\ vectors = << >>
  /\ queue = {}
  /\ fs = [i \in Ids |-> "missing"]
  /\ req = [i \in Ids |-> IdleReq]
  /\ task = [i \in Ids |-> IdleTask]
  /\ del = [i \in Ids |-> IdleDel]
  /\ put = [c \in Clients |-> IdlePut]
  /\ dup = [i \in Ids |-> IdleTask]
  /\ crs = IdleCourse
  /\ module_of = [v \in VideoIds |-> NoModule]
  /\ found = NoResult
  /\ idx = IdleIdx
  /\ chunked = IdleChunk

Unused(i) == req[i].pc = "idle" /\ \A j \in Ids : j < i => req[j].pc # "idle"

\* the file written by an upload; with Google Drive there is no local file
Stored(storage_type, file) == IF storage_type = "drive" THEN "missing" ELSE file


----------------------------------------------------------------------------
(* queued uploads *)

\* The except block of a queued upload, reached when .delay() raises.  It
\* calls loop.run_until_complete on a new event loop from inside the running
\* request loop; asyncio refuses ("Cannot run the event loop while another
\* loop is running"), so the RuntimeError leaves the handler before either
\* write is issued and the request ends with a 500.
dispatch_failed(coll, id) == coll

Returned(i, ep, type, st, code, status, e) ==
  [IdleReq EXCEPT !.ep = ep, !.type = type, !.st = st, !.pc = "returned",
                  !.code = code, !.status = status, !.e = e]

\* POST /{courseId}/videos
upload_video(i, st, file, broker) ==
  /\ Unused(i)
  /\ fs' = [fs EXCEPT ![i] = Stored(st, file)]
  /\ LET inserted == insert_one(videos, i, NewDoc("video", st, "PENDING", FALSE)) IN
     IF broker = "up"
     THEN /\ videos' = inserted
          /\ queue' = queue \cup {i}
          /\ req' = [req EXCEPT ![i] = Returned(i, "upload_video", "video", st, 202, "PENDING", NoErr)]
     ELSE /\ videos' = dispatch_failed(inserted, i)
          /\ queue' = queue
          /\ req' = [req EXCEPT ![i] = Returned(i, "upload_video", "video", st, 500, AbsentStr, ErrBroker)]
  /\ UNCHANGED <<resources, transcripts, vectors, task, mgmt, retrieval>>

\* POST /{courseId}/resources with a video
upload_resource_video(i, st, file, broker) ==
  /\ Unused(i)
  /\ fs' = [fs EXCEPT ![i] = Stored(st, file)]
  /\ LET inserted == insert_one(resources, i, NewDoc("video", st, "PENDING", FALSE)) IN
     IF broker = "up"
     THEN /\ resources' = inserted
          /\ queue' = queue \cup {i}
          /\ req' = [req EXCEPT ![i] = Returned(i, "upload_resource", "video", st, 202, "PENDING", NoErr)]
     ELSE /\ resources' = dispatch_failed(inserted, i)
          /\ queue' = queue
          /\ req' = [req EXCEPT ![i] = Returned(i, "upload_resource", "video", st, 500, AbsentStr, ErrBroker)]
  /\ UNCHANGED <<videos, transcripts, vectors, task, mgmt, retrieval>>

----------------------------------------------------------------------------
(* tasks.process_video_task *)

Raise(p, msg) == [p EXCEPT !.pc = "wFailed", !.e = msg]

\* the worker receives the message and runs async_db_operation (find_one)
task_lookup(i) ==
  /\ i \in queue
  /\ task[i].pc = "idle"
  /\ queue' = queue \ {i}
  /\ task' = [task EXCEPT ![i] =
               IF i \in DOMAIN videos
               THEN [@ EXCEPT !.pc = "w0", !.st = videos[i].storage_type]
               ELSE Raise(@, ErrNotFound)]
  /\ UNCHANGED <<videos, resources, transcripts, vectors, fs, req, mgmt, retrieval>>

\* a status write that leaves a record alone once its status is terminal
TaskStage_guarded(i, from, to, progress, current_step, estimated_time) ==
  /\ task[i].pc = from
  /\ \/ /\ videos' = IF i \in DOMAIN videos /\ videos[i].status \in {"COMPLETE", "FAILED"}
                       THEN videos
                       ELSE update_video_status(videos, i, "PROCESSING", progress, current_step,
                                                estimated_time)
        /\ task' = [task EXCEPT ![i].pc = to]
     \/ /\ videos' = videos
        /\ task' = [task EXCEPT ![i] = Raise(@, ErrDb)]
  /\ UNCHANGED <<resources, transcripts, vectors, queue, fs, req, mgmt, retrieval>>

\* a status write of the try block: it is applied, or the database raises
TaskStage(i, from, to, progress, current_step, estimated_time) ==
  /\ task[i].pc = from
  /\ \/ /\ videos' = update_video_status(videos, i, "PROCESSING", progress, current_step, estimated_time)
        /\ task' = [task EXCEPT ![i].pc = to]
     \/ /\ videos' = videos
        /\ task' = [task EXCEPT ![i] = Raise(@, ErrDb)]
  /\ UNCHANGED <<resources, transcripts, vectors, queue, fs, req, mgmt, retrieval>>

task_w0(i) == TaskStage(i, "w0", "extract", 0, "Starting video processing", 300)

\* video_content of the task: no check that the file exists
task_video_content(st, file) ==
  IF st = "drive" THEN "drive"
  ELSE LET transcription == process_video_for_transcription(file) IN
       CASE transcription = "None"  -> "placeholder"
         [] transcription = "text"  -> "text"
         [] transcription = "float" -> "TypeError"

task_extract(i) ==
  /\ task[i].pc = "extract"
  /\ LET vc == task_video_content(task[i].st, fs[i]) IN
     task' = [task EXCEPT ![i] =
               IF vc = "TypeError" THEN Raise(@, ErrNotSubscript)
               ELSE [@ EXCEPT !.pc = "w30", !.vc = vc]]
  /\ UNCHANGED <<videos, resources, transcripts, vectors, queue, fs, req, mgmt, retrieval>>

task_w30(i) == TaskStage(i, "w30", "insert", 30, "Extracting transcript", 240)

Transcript(key, id, vc) ==
  [key |-> key, id |-> id, text |-> vc,
   confidence |-> IF vc = "text" THEN 9 ELSE 0]

task_insert(i) ==
  /\ task[i].pc = "insert"
  /\ \/ /\ transcripts' = Append(transcripts, Transcript("video_id", i, task[i].vc))
        /\ task' = [task EXCEPT ![i].pc = "w60"]
     \/ /\ transcripts' = transcripts
        /\ task' = [task EXCEPT ![i] = Raise(@, ErrDb)]
  /\ UNCHANGED <<videos, resources, vectors, queue, fs, req, mgmt, retrieval>>

task_w60(i) == TaskStage(i, "w60", "index", 60, "Indexing content for search", 180)

\* rag.generator.add_video_content_to_rag: one entry for the single segment
\* (its text is never blank), or the embedding model / vector store raises
add_video_content_to_rag(store, video_id) ==
  Append(store, [video_id |-> video_id, source |-> "video_transcript", segment_index |-> 0])

\* an indexing failure that is logged and skipped instead of propagating
task_index_swallow(i) ==
  /\ task[i].pc = "index"
  /\ \/ /\ vectors' = add_video_content_to_rag(vectors, i)
        /\ task' = [task EXCEPT ![i].pc = "w80"]
     \/ /\ vectors' = vectors
        /\ task' = [task EXCEPT ![i].pc = "w80", ![i].e = ErrIndex]
  /\ UNCHANGED <<videos, resources, transcripts, queue, fs, req, mgmt, retrieval>>

task_index(i) ==
  /\ task[i].pc = "index"
  /\ \/ /\ vectors' = add_video_content_to_rag(vectors, i)
        /\ task' = [task EXCEPT ![i].pc = "w80"]
     \/ /\ vectors' = vectors
        /\ task' = [task EXCEPT ![i] = Raise(@, ErrIndex)]
  /\ UNCHANGED <<videos, resources, transcripts, queue, fs, req, mgmt, retrieval>>

task_w80(i) == TaskStage(i, "w80", "wComplete", 80, "Processing visual content", 120)

task_wComplete(i) ==
  /\ task[i].pc = "wComplete"
  /\ \/ /\ videos' = update_video_status(videos, i, "COMPLETE", 100, "Processing completed", 0)
        /\ task' = [task EXCEPT ![i].pc = "final"]
     \/ /\ videos' = videos
        /\ task' = [task EXCEPT ![i] = Raise(@, ErrDb)]
  /\ UNCHANGED <<resources, transcripts, vectors, queue, fs, req, mgmt, retrieval>>

\* the update with status, duration_seconds and processed_at, then return
task_final(i) ==
  /\ task[i].pc = "final"
  /\ \/ /\ videos' = SetFinal(videos, i, 30)
        /\ task' = [task EXCEPT ![i].pc = "done", ![i].result = "success"]
     \/ /\ videos' = videos
        /\ task' = [task EXCEPT ![i] = Raise(@, ErrDb)]
  /\ UNCHANGED <<resources, transcripts, vectors, queue, fs, req, mgmt, retrieval>>

\* except Exception: write FAILED, return the "failed" result
task_wFailed(i) ==
  /\ task[i].pc = "wFailed"
  /\ videos' = update_video_status(videos, i, "FAILED", 100, task[i].e, 0)
  /\ task' = [task EXCEPT ![i].pc = "done", ![i].result = "failed"]
  /\ UNCHANGED <<resources, transcripts, vectors, queue, fs, req, mgmt, retrieval>>

process_video_task(i) ==
  \/ task_lookup(i) \/ task_w0(i) \/ task_extract(i) \/ task_w30(i)
  \/ task_insert(i) \/ task_w60(i) \/ task_index(i) \/ task_w80(i)
  \/ task_wComplete(i) \/ task_final(i) \/ task_wFailed(i)


----------------------------------------------------------------------------
(* synchronous video pipeline: videos.upload_video_sync,                   *)
(* videos.upload_video_sync_to_module, and the video branch of             *)
(* resources.upload_resource_sync, resources.upload_resource_sync_to_module *)

\* the collection the endpoint inserted its record into
InVideos(ep) == ep \in {"upload_video", "upload_video_sync"}

\* POST /{courseId}/videos-sync, /modules/{moduleId}/videos-sync
upload_video_sync(i, st, file) ==
  /\ Unused(i)
  /\ fs' = [fs EXCEPT ![i] = Stored(st, file)]
  /\ videos' = insert_one(videos, i, NewDoc("video", st, "PROCESSING", FALSE))
  /\ req' = [req EXCEPT ![i] = [IdleReq EXCEPT !.ep = "upload_video_sync", !.type = "video",
                                               !.st = st, !.pc = "w0"]]
  /\ UNCHANGED <<resources, transcripts, vectors, queue, task, mgmt, retrieval>>

\* POST /{courseId}/resources-sync, /modules/{moduleId}/resources-sync
upload_resource_sync(i, type, st, file) ==
  /\ Unused(i)
  /\ fs' = [fs EXCEPT ![i] = Stored(st, file)]
  /\ resources' = insert_one(resources, i, NewDoc(type, st, "PROCESSING", FALSE))
  /\ req' = [req EXCEPT ![i] = [IdleReq EXCEPT !.ep = "upload_resource_sync", !.type = type,
                                               !.st = st,
                                               !.pc = IF type = "video" THEN "w0" ELSE "doc_save"]]
  /\ UNCHANGED <<videos, transcripts, vectors, queue, task, mgmt, retrieval>>

SyncVideo(i) == req[i].type = "video" /\ req[i].ep \in {"upload_video_sync", "upload_resource_sync"}

SyncStage(i, from, to, progress, current_step, estimated_time) ==
  /\ SyncVideo(i)
  /\ req[i].pc = from
  /\ \/ /\ videos' = update_video_status(videos, i, "PROCESSING", progress, current_step, estimated_time)
        /\ req' = [req EXCEPT ![i].pc = to]
     \/ /\ videos' = videos
        /\ req' = [req EXCEPT ![i] = Raise(@, ErrDb)]
  /\ UNCHANGED <<resources, transcripts, vectors, queue, fs, task, mgmt, retrieval>>

sync_w0(i) == SyncStage(i, "w0", "extract", 0, "Starting video processing", 300)

\* video_content of the synchronous pipeline: checks the path first
sync_video_content(st, file) ==
  IF st = "drive" THEN "drive"
  ELSE IF file = "missing" THEN "NotExist"
  ELSE LET transcription == process_video_for_transcription(file) IN
       CASE transcription = "None"  -> "placeholder"
         [] transcription = "text"  -> "text"
         [] transcription = "float" -> "TypeError"

sync_extract(i) ==
  /\ SyncVideo(i)
  /\ req[i].pc = "extract"
  /\ LET vc == sync_video_content(req[i].st, fs[i]) IN
     req' = [req EXCEPT ![i] =
              CASE vc = "NotExist"  -> Raise(@, ErrNotExist)
                [] vc = "TypeError" -> Raise(@, ErrNotSubscript)
                [] OTHER            -> [@ EXCEPT !.pc = "w30", !.vc = vc]]
  /\ UNCHANGED <<videos, resources, transcripts, vectors, queue, fs, task, mgmt, retrieval>>

sync_w30(i) == SyncStage(i, "w30", "insert", 30, "Extracting transcript", 240)

sync_insert(i) ==
  /\ SyncVideo(i)
  /\ req[i].pc = "insert"
  /\ \/ /\ transcripts' = Append(transcripts,
                 Transcript(IF InVideos(req[i].ep) THEN "video_id" ELSE "resource_id", i, req[i].vc))
        /\ req' = [req EXCEPT ![i].pc = "w60"]
     \/ /\ transcripts' = transcripts
        /\ req' = [req EXCEPT ![i] = Raise(@, ErrDb)]
  /\ UNCHANGED <<videos, resources, vectors, queue, fs, task, mgmt, retrieval>>

sync_w60(i) == SyncStage(i, "w60", "index", 60, "Indexing content for search", 180)

sync_index(i) ==
  /\ SyncVideo(i)
  /\ req[i].pc = "index"
  /\ \/ /\ vectors' = add_video_content_to_rag(vectors, i)
        /\ req' = [req EXCEPT ![i].pc = "w80"]
     \/ /\ vectors' = vectors
        /\ req' = [req EXCEPT ![i] = Raise(@, ErrIndex)]
  /\ UNCHANGED <<videos, resources, transcripts, queue, fs, task, mgmt, retrieval>>

sync_w80(i) == SyncStage(i, "w80", "wComplete", 80, "Processing visual content", 120)

sync_wComplete(i) ==
  /\ SyncVideo(i)
  /\ req[i].pc = "wComplete"
  /\ \/ /\ videos' = update_video_status(videos, i, "COMPLETE", 100, "Processing completed", 0)
        /\ req' = [req EXCEPT ![i].pc = "final"]
     \/ /\ videos' = videos
        /\ req' = [req EXCEPT ![i] = Raise(@, ErrDb)]
  /\ UNCHANGED <<resources, transcripts, vectors, queue, fs, task, mgmt, retrieval>>

\* the update of the endpoint's own collection, then the 200 response
sync_final(i) ==
  /\ SyncVideo(i)
  /\ req[i].pc = "final"
  /\ \/ /\ videos' = IF InVideos(req[i].ep) THEN SetFinal(videos, i, 30) ELSE videos
        /\ resources' = IF InVideos(req[i].ep) THEN resources ELSE SetFinal(resources, i, 30)
        /\ req' = [req EXCEPT ![i].pc = "returned", ![i].code = 200, ![i].status = "COMPLETE"]
     \/ /\ videos' = videos
        /\ resources' = resources
        /\ req' = [req EXCEPT ![i] = Raise(@, ErrDb)]
  /\ UNCHANGED <<transcripts, vectors, queue, fs, task, mgmt, retrieval>>

\* except Exception: update_video_status(id, "FAILED", ...)
sync_wFailed(i) ==
  /\ req[i].ep \in {"upload_video_sync", "upload_resource_sync"}
  /\ req[i].pc = "wFailed"
  /\ videos' = update_video_status(videos, i, "FAILED", 100, req[i].e, 0)
  /\ req' = [req EXCEPT ![i].pc = "wErr"]
  /\ UNCHANGED <<resources, transcripts, vectors, queue, fs, task, mgmt, retrieval>>

\* ... then {"$set": {"error_message": str(e)}} on the endpoint's own
\* collection, then HTTPException 500
sync_wErr(i) ==
  /\ req[i].pc = "wErr"
  /\ videos' = IF InVideos(req[i].ep) THEN SetError(videos, i, req[i].e) ELSE videos
  /\ resources' = IF InVideos(req[i].ep) THEN resources ELSE SetError(resources, i, req[i].e)
  /\ req' = [req EXCEPT ![i].pc = "returned", ![i].code = 500]
  /\ UNCHANGED <<transcripts, vectors, queue, fs, task, mgmt, retrieval>>

sync_video(i) ==
  \/ sync_w0(i) \/ sync_extract(i) \/ sync_w30(i) \/ sync_insert(i) \/ sync_w60(i)
  \/ sync_index(i) \/ sync_w80(i) \/ sync_wComplete(i) \/ sync_final(i)
  \/ sync_wFailed(i) \/ sync_wErr(i)


----------------------------------------------------------------------------
(* documents: resources.upload_resource (document branch),                 *)
(* resources.upload_resource_sync (document branch),                       *)
(* document_processing.upload_document, upload_document_sync and           *)
(* upload_document_sync_to_module                                          *)

DocTypes == {"pdf", "docx", "txt"}

\* {"$set": {"status": "COMPLETE", "processed_at": utcnow()}}
SetComplete(coll, id) ==
  IF id \in DOMAIN coll
  THEN [coll EXCEPT ![id].status = "COMPLETE", ![id].processed_at = TRUE]
  ELSE coll

\* {"$set": {"status": "FAILED", "error_message": str(e)}}
SetFailed(coll, id, msg) ==
  IF id \in DOMAIN coll
  THEN [coll EXCEPT ![id].status = "FAILED", ![id].error_message = msg]
  ELSE coll

\* POST /{courseId}/resources with a document
upload_resource_document(i, type, st, file) ==
  /\ Unused(i)
  /\ fs' = [fs EXCEPT ![i] = Stored(st, file)]
  /\ resources' = insert_one(resources, i, NewDoc(type, st, "PROCESSING", TRUE))
  /\ req' = [req EXCEPT ![i] = [IdleReq EXCEPT !.ep = "upload_resource", !.type = type,
                                               !.st = st, !.pc = "doc_save"]]
  /\ UNCHANGED <<videos, transcripts, vectors, queue, task, mgmt, retrieval>>

\* POST /{courseId}/resources
upload_resource(i, type, st, file, broker) ==
  IF type = "video" THEN upload_resource_video(i, st, file, broker)
  ELSE upload_resource_document(i, type, st, file)

\* POST /{courseId}/documents
upload_document(i, type, st, file) ==
  /\ Unused(i)
  /\ fs' = [fs EXCEPT ![i] = Stored(st, file)]
  /\ resources' = insert_one(resources, i, NewDoc(type, st, "PROCESSING", TRUE))
  /\ req' = [req EXCEPT ![i] = [IdleReq EXCEPT !.ep = "upload_document", !.type = type,
                                               !.st = st, !.pc = "doc_save"]]
  /\ UNCHANGED <<videos, transcripts, vectors, queue, task, mgmt, retrieval>>

\* POST /{courseId}/documents-sync, /modules/{moduleId}/documents-sync
upload_document_sync(i, type, st, file) ==
  /\ Unused(i)
  /\ fs' = [fs EXCEPT ![i] = Stored(st, file)]
  /\ resources' = insert_one(resources, i, NewDoc(type, st, "PROCESSING", FALSE))
  /\ req' = [req EXCEPT ![i] = [IdleReq EXCEPT !.ep = "upload_document_sync", !.type = type,
                                               !.st = st, !.pc = "doc_save"]]
  /\ UNCHANGED <<videos, transcripts, vectors, queue, task, mgmt, retrieval>>

\* process_document, then save_document_content when there is content;
\* save_document_content swallows a failed insert
doc_save(i) ==
  /\ req[i].pc = "doc_save"
  /\ IF process_document(fs[i]) = "text"
     THEN \/ transcripts' = Append(transcripts, [key |-> "resource_id", id |-> i,
                                                  text |-> "text", confidence |-> 10])
          \/ transcripts' = transcripts
     ELSE transcripts' = transcripts
  /\ req' = [req EXCEPT ![i].pc = "doc_complete"]
  /\ UNCHANGED <<videos, resources, vectors, queue, fs, task, mgmt, retrieval>>

\* the status the endpoint puts in its success response
ResponseStatus(ep, type) ==
  IF ep = "upload_resource" THEN (IF type = "video" THEN "PENDING" ELSE "PROCESSING")
  ELSE IF ep = "upload_video" THEN "PENDING"
  ELSE "COMPLETE"

ResponseCode(ep) == IF ep \in {"upload_video", "upload_resource", "upload_document"} THEN 202 ELSE 200

\* the update to COMPLETE and the response; when the update raises, the
\* synchronous endpoints enter their except block, the others have none
doc_complete(i) ==
  /\ req[i].pc = "doc_complete"
  /\ \/ /\ resources' = SetComplete(resources, i)
        /\ req' = [req EXCEPT ![i].pc = "returned", ![i].code = ResponseCode(req[i].ep),
                               ![i].status = ResponseStatus(req[i].ep, req[i].type)]
     \/ /\ resources' = resources
        /\ req' = [req EXCEPT ![i] =
                    IF req[i].ep = "upload_resource_sync" THEN Raise(@, ErrDb)
                    ELSE IF req[i].ep = "upload_document_sync"
                    THEN [@ EXCEPT !.pc = "doc_wFailed", !.e = ErrDb]
                    ELSE [@ EXCEPT !.pc = "returned", !.code = 500, !.e = ErrDb]]
  /\ UNCHANGED <<videos, transcripts, vectors, queue, fs, task, mgmt, retrieval>>

\* except Exception of upload_document_sync: FAILED with the message, then 500
doc_wFailed(i) ==
  /\ req[i].pc = "doc_wFailed"
  /\ resources' = SetFailed(resources, i, req[i].e)
  /\ req' = [req EXCEPT ![i].pc = "returned", ![i].code = 500]
  /\ UNCHANGED <<videos, transcripts, vectors, queue, fs, task, mgmt, retrieval>>

----------------------------------------------------------------------------

Next ==
  \E i \in Ids :
    \/ \E st \in {"drive", "local"}, file \in FileStates :
         \/ \E broker \in BrokerStates : upload_video(i, st, file, broker)
         \/ \E broker \in BrokerStates : upload_resource(i, "video", st, file, broker)
         \/ upload_video_sync(i, st, file)
         \/ upload_resource_sync(i, "video", st, file)
    \/ \E type \in DocTypes, st \in {"drive", "local"}, file \in DocStates :
         \/ upload_resource(i, type, st, file, "up")
         \/ upload_resource_sync(i, type, st, file)
         \/ upload_document(i, type, st, file)
         \/ upload_document_sync(i, type, st, file)
    \/ process_video_task(i)
    \/ sync_video(i)
    \/ doc_save(i) \/ doc_complete(i) \/ doc_wFailed(i)

Spec == Init /\ [][Next]_vars

----------------------------------------------------------------------------
(* video_processing.delete_video, resources.delete_resource *)

\* an attempt on record i is queued or running
InFlight(i) == i \in queue \/ task[i].pc \notin {"idle", "done"} \/ req[i].pc # "returned"

\* collection.delete_many({key: id}) on the transcripts
delete_many(coll, key, id) ==
  LET Keep(t) == ~(t.key = key /\ t.id = id) IN SelectSeq(coll, Keep)

\* collection.delete_one({"_id": id})
delete_one(coll, id) == [j \in DOMAIN coll \ {id} |-> coll[j]]

\* os.remove(storage_url) for a locally stored file
remove_file(files, i, storage_type) ==
  IF storage_type = "local" THEN [files EXCEPT ![i] = "missing"] ELSE files

\* find_one on the videos; a missing video is answered without any write
delete_video_find(i) ==
  /\ del[i].pc = "idle"
  /\ i \in DOMAIN videos
  /\ del' = [del EXCEPT ![i] = [IdleDel EXCEPT !.ep = "delete_video", !.pc = "found",
                                               !.st = videos[i].storage_type,
                                               !.quiet = ~InFlight(i)]]
  /\ UNCHANGED <<videos, resources, transcripts, vectors, queue, fs, req, task, put, dup, crs, retrieval>>

\* transcripts.delete_many({"video_id": ...}), summaries.delete_many
delete_video_related(i) ==
  /\ del[i].ep = "delete_video"
  /\ del[i].pc = "found"
  /\ transcripts' = delete_many(transcripts, "video_id", i)
  /\ del' = [del EXCEPT ![i].pc = "related"]
  /\ UNCHANGED <<videos, resources, vectors, queue, fs, req, task, put, dup, crs, retrieval>>

\* videos.delete_one, the removal of the local file, the response
delete_video_doc(i) ==
  /\ del[i].ep = "delete_video"
  /\ del[i].pc = "related"
  /\ IF i \in DOMAIN videos
     THEN /\ videos' = delete_one(videos, i)
          /\ fs' = remove_file(fs, i, del[i].st)
          /\ del' = [del EXCEPT ![i].pc = "returned", ![i].code = 200]
     ELSE /\ UNCHANGED <<videos, fs>>
          /\ del' = [del EXCEPT ![i].pc = "returned", ![i].code = 500]
  /\ UNCHANGED <<resources, transcripts, vectors, queue, req, task, put, dup, crs, retrieval>>

\* DELETE /videos/{video_id}
delete_video(i) == delete_video_find(i) \/ delete_video_related(i) \/ delete_video_doc(i)

delete_resource_find(i) ==
  /\ del[i].pc = "idle"
  /\ i \in DOMAIN resources
  /\ del' = [del EXCEPT ![i] = [IdleDel EXCEPT !.ep = "delete_resource", !.pc = "found",
                                               !.st = resources[i].storage_type,
                                               !.quiet = ~InFlight(i)]]
  /\ UNCHANGED <<videos, resources, transcripts, vectors, queue, fs, req, task, put, dup, crs, retrieval>>

\* resources.delete_one; 404 when nothing was deleted
delete_resource_doc(i) ==
  /\ del[i].ep = "delete_resource"
  /\ del[i].pc = "found"
  /\ IF i \in DOMAIN resources
     THEN /\ resources' = delete_one(resources, i)
          /\ del' = [del EXCEPT ![i].pc = "related"]
     ELSE /\ UNCHANGED resources
          /\ del' = [del EXCEPT ![i].pc = "returned", ![i].code = 404]
  /\ UNCHANGED <<videos, transcripts, vectors, queue, fs, req, task, put, dup, crs, retrieval>>

\* transcripts, summaries and quizzes delete_many({"resource_id": ...}), the
\* removal of the local file, the response
delete_resource_related(i) ==
  /\ del[i].ep = "delete_resource"
  /\ del[i].pc = "related"
  /\ transcripts' = delete_many(transcripts, "resource_id", i)
  /\ fs' = remove_file(fs, i, del[i].st)
  /\ del' = [del EXCEPT ![i].pc = "returned", ![i].code = 200]
  /\ UNCHANGED <<videos, resources, vectors, queue, req, task, put, dup, crs, retrieval>>

\* DELETE /resources/{resourceId}
delete_resource(i) ==
  delete_resource_find(i) \/ delete_resource_doc(i) \/ delete_resource_related(i)

NextDelete == Next \/ \E i \in Ids : delete_video(i) \/ delete_resource(i)

\* the pipeline together with the delete endpoints
SpecDelete == Init /\ [][NextDelete]_vars

----------------------------------------------------------------------------
(* courses.delete_course; every video of the model belongs to the one course *)

\* collection.delete_many({"video_id": {"$in": ids}}) on the transcripts
delete_many_in(coll, key, ids) ==
  LET Keep(t) == ~(t.key = key /\ t.id \in ids) IN SelectSeq(coll, Keep)

\* the course is found, the caller is its creator, nobody else is enrolled
delete_course_find ==
  /\ crs.pc = "idle"
  /\ crs' = [IdleCourse EXCEPT !.pc = "found", !.members = DOMAIN videos,
                               !.quiet = \A i \in DOMAIN videos : ~InFlight(i)]
  /\ UNCHANGED <<videos, resources, transcripts, vectors, queue, fs, req, task, del, put, dup,
                 retrieval>>

\* course_rooms.delete_one, modules.delete_many, enrollments.delete_many,
\* videos.delete_many({"course_id": ...})
delete_course_videos ==
  /\ crs.pc = "found"
  /\ videos' = << >>
  /\ crs' = [crs EXCEPT !.pc = "videos_deleted"]
  /\ UNCHANGED <<resources, transcripts, vectors, queue, fs, req, task, del, put, dup,
                 retrieval>>

\* video_docs = videos.find({"course_id": ...}), after the videos were deleted
delete_course_list ==
  /\ crs.pc = "videos_deleted"
  /\ crs' = [crs EXCEPT !.pc = "listed", !.video_ids = DOMAIN videos]
  /\ UNCHANGED <<videos, resources, transcripts, vectors, queue, fs, req, task, del, put, dup,
                 retrieval>>

\* if video_ids: transcripts.delete_many({"video_id": {"$in": video_ids}});
\* the response
delete_course_transcripts ==
  /\ crs.pc = "listed"
  /\ transcripts' = IF crs.video_ids # {}
                    THEN delete_many_in(transcripts, "video_id", crs.video_ids)
                    ELSE transcripts
  /\ crs' = [crs EXCEPT !.pc = "returned", !.code = 200]
  /\ UNCHANGED <<videos, resources, vectors, queue, fs, req, task, del, put, dup, retrieval>>

\* DELETE /courses/{course_id}
delete_course ==
  \/ delete_course_find
  \/ delete_course_videos
  \/ delete_course_list
  \/ delete_course_transcripts

NextCourse == Next \/ delete_course

\* the pipeline together with the deletion of the course
SpecCourse == Init /\ [][NextCourse]_vars

----------------------------------------------------------------------------
(* video_processing.update_video_transcript *)

\* transcripts.find_one({"video_id": id}) is not None
find_one(coll, key, id) == \E k \in 1..Len(coll) : coll[k].key = key /\ coll[k].id = id

\* transcripts.update_one({"video_id": id}, {"$set": transcript_doc}): the
\* first matching document gets the new segments; no match, no change
update_one(coll, key, id, segments) ==
  IF ~find_one(coll, key, id) THEN coll
  ELSE LET k == CHOOSE n \in 1..Len(coll) :
                  /\ coll[n].key = key /\ coll[n].id = id
                  /\ \A m \in 1..(n - 1) : ~(coll[m].key = key /\ coll[m].id = id)
       IN [coll EXCEPT ![k].text = segments]

\* find_one on the videos and the owner check
put_find(c, i) ==
  /\ put[c].pc = "idle"
  /\ i \in DOMAIN videos
  /\ put' = [put EXCEPT ![c] = [IdlePut EXCEPT !.pc = "check", !.video_id = i]]
  /\ UNCHANGED <<videos, resources, transcripts, vectors, queue, fs, req, task, del, dup, crs, retrieval>>

\* existing_transcript = find_one on the transcripts
put_check(c) ==
  /\ put[c].pc = "check"
  /\ put' = [put EXCEPT ![c].pc = "write",
                        ![c].existing = find_one(transcripts, "video_id", put[c].video_id)]
  /\ UNCHANGED <<videos, resources, transcripts, vectors, queue, fs, req, task, del, dup, crs, retrieval>>

\* update_one when a transcript was seen, insert_one otherwise; the response
put_write(c) ==
  /\ put[c].pc = "write"
  /\ transcripts' =
       IF put[c].existing
       THEN update_one(transcripts, "video_id", put[c].video_id, "edited")
       ELSE Append(transcripts, [key |-> "video_id", id |-> put[c].video_id,
                                 text |-> "edited", confidence |-> AbsentNum])
  /\ put' = [put EXCEPT ![c].pc = "returned", ![c].code = 200]
  /\ UNCHANGED <<videos, resources, vectors, queue, fs, req, task, del, dup, crs, retrieval>>

\* PUT /videos/{video_id}/transcript
update_video_transcript(c) ==
  \/ \E i \in Ids : put_find(c, i)
  \/ put_check(c)
  \/ put_write(c)

NextTranscript == Next \/ \E c \in Clients : update_video_transcript(c)

\* the pipeline together with the transcript update endpoint
SpecTranscript == Init /\ [][NextTranscript]_vars

----------------------------------------------------------------------------
(* retrieval: rag.generator.RAGGenerator, module_chat.module_specific_chat *)

\* In this part the vector store is listed by increasing distance to the
\* query that is being asked: collection.query returns the first n_results
\* entries that pass the where clause.

\* top_k of the module chat and default of search_video_content
TopK == 5

Min(a, b) == IF a < b THEN a ELSE b

\* the entries the indexing operations add: add_video_transcript_to_rag one
\* per chunk with the video id in its metadata, add_documents one per chunk
\* with no video id
Entries ==
  {[video_id |-> v, source |-> "video_transcript", segment_index |-> 0] : v \in VideoIds}
    \cup {[video_id |-> NoVideo, source |-> "document", segment_index |-> AbsentNum]}

\* the stores these operations can build, in every order of distance
Stores == UNION {[1..n -> Entries] : n \in 0..MaxChunks}

\* a store, and for every video the module_id its document was inserted with
InitSearch ==
  /\ videos = << >>
  /\ resources = << >>
  /\ transcripts = << >>
  /\ vectors \in Stores
  /\ queue = {}
  /\ fs = [i \in Ids |-> "missing"]
  /\ req = [i \in Ids |-> IdleReq]
  /\ task = [i \in Ids |-> IdleTask]
  /\ del = [i \in Ids |-> IdleDel]
  /\ put = [c \in Clients |-> IdlePut]
  /\ dup = [i \in Ids |-> IdleTask]
  /\ crs = IdleCourse
  /\ module_of \in [VideoIds -> Modules \cup {NoModule}]
  /\ found = NoResult
  /\ idx = IdleIdx
  /\ chunked = IdleChunk

\* collection.query(n_results, where): the nearest n_results entries among
\* those the where clause lets through (fewer when fewer exist)
collection_query(store, n_results, where_video) ==
  LET Passes(e) == where_video = NoVideo \/ e.video_id = where_video
      matched == SelectSeq(store, Passes)
  IN SubSeq(matched, 1, Min(n_results, Len(matched)))

\* a search that sends no where clause
search_video_content_nowhere(store, video_id, top_k) ==
  LET results == collection_query(store, top_k, NoVideo)
  IN [k \in 1..Len(results) |-> [metadata |-> results[k]]]

\* RAGGenerator.search_video_content: where = {"video_id": video_id} when a
\* video_id is given, and one formatted result per returned entry
search_video_content(store, video_id, top_k) ==
  LET results == collection_query(store, top_k, video_id)
  IN [k \in 1..Len(results) |-> [metadata |-> results[k]]]

\* a call of search_video_content with a video id filter
search(v, k) ==
  /\ found' = [NoResult EXCEPT !.ep = "search_video_content", !.video_id = v, !.top_k = k,
                               !.chunks = search_video_content(vectors, v, k)]
  /\ UNCHANGED <<videos, resources, transcripts, vectors, queue, fs, req, task, mgmt, module_of, idx, chunked>>

\* a module chat that passes on every chunk the search returned
module_specific_chat_unfiltered(m) ==
  /\ LET relevant_chunks == search_video_content(vectors, NoVideo, TopK)
     IN found' = [NoResult EXCEPT !.ep = "module_specific_chat", !.top_k = TopK, !.module = m,
                                  !.chunks = relevant_chunks]
  /\ UNCHANGED <<videos, resources, transcripts, vectors, queue, fs, req, task, mgmt, module_of, idx, chunked>>

\* POST /modules/{module_id}/chat: the unscoped top-5 search, then the
\* filter on the ids of the module's videos
module_specific_chat(m) ==
  /\ LET relevant_chunks == search_video_content(vectors, NoVideo, TopK)
         module_video_ids == {v \in VideoIds : module_of[v] = m}
         InModule(chunk_result) ==
           /\ chunk_result.metadata.video_id # NoVideo
           /\ chunk_result.metadata.video_id \in module_video_ids
     IN found' = [NoResult EXCEPT !.ep = "module_specific_chat", !.top_k = TopK, !.module = m,
                                  !.chunks = SelectSeq(relevant_chunks, InModule)]
  /\ UNCHANGED <<videos, resources, transcripts, vectors, queue, fs, req, task, mgmt, module_of, idx, chunked>>

NextSearch ==
  \/ \E v \in VideoIds, k \in 1..MaxK : search(v, k)
  \/ \E m \in Modules : module_specific_chat(m)

\* retrieval over the stores that indexing can build
SpecSearch == InitSearch /\ [][NextSearch]_vars

\* the stores of up to MaxRanked entries, in every order of distance
RankedStores == UNION {[1..n -> Entries] : n \in 0..MaxRanked}

\* a store that can hold more entries than TopK
InitRanked ==
  /\ videos = << >>
  /\ resources = << >>
  /\ transcripts = << >>
  /\ vectors \in RankedStores
  /\ queue = {}
  /\ fs = [i \in Ids |-> "missing"]
  /\ req = [i \in Ids |-> IdleReq]
  /\ task = [i \in Ids |-> IdleTask]
  /\ del = [i \in Ids |-> IdleDel]
  /\ put = [c \in Clients |-> IdlePut]
  /\ dup = [i \in Ids |-> IdleTask]
  /\ crs = IdleCourse
  /\ module_of \in [VideoIds -> Modules \cup {NoModule}]
  /\ found = NoResult
  /\ idx = IdleIdx
  /\ chunked = IdleChunk

NextRanked == \E m \in Modules : module_specific_chat(m)

\* the module chat over stores larger than one search result
SpecRanked == InitRanked /\ [][NextRanked]_vars

----------------------------------------------------------------------------
(* a second delivery of process_video_task: the broker hands the message   *)
(* of a queued video upload to a worker once more while, or after, the     *)
(* first run executes; dup[i] is that second run of the same task body     *)

\* the second run starts: async_db_operation (find_one)
dup_lookup(i) ==
  /\ task[i].pc # "idle"
  /\ dup[i].pc = "idle"
  /\ dup' = [dup EXCEPT ![i] =
              IF i \in DOMAIN videos
              THEN [@ EXCEPT !.pc = "w0", !.st = videos[i].storage_type]
              ELSE Raise(@, ErrNotFound)]
  /\ UNCHANGED <<videos, resources, transcripts, vectors, queue, fs, req, task, del, put, crs, retrieval>>

\* a status write of the second run's try block
DupStage(i, from, to, progress, current_step, estimated_time) ==
  /\ dup[i].pc = from
  /\ \/ /\ videos' = update_video_status(videos, i, "PROCESSING", progress, current_step, estimated_time)
        /\ dup' = [dup EXCEPT ![i].pc = to]
     \/ /\ videos' = videos
        /\ dup' = [dup EXCEPT ![i] = Raise(@, ErrDb)]
  /\ UNCHANGED <<resources, transcripts, vectors, queue, fs, req, task, del, put, crs, retrieval>>

dup_w0(i) == DupStage(i, "w0", "extract", 0, "Starting video processing", 300)

dup_extract(i) ==
  /\ dup[i].pc = "extract"
  /\ LET vc == task_video_content(dup[i].st, fs[i]) IN
     dup' = [dup EXCEPT ![i] =
              IF vc = "TypeError" THEN Raise(@, ErrNotSubscript)
              ELSE [@ EXCEPT !.pc = "w30", !.vc = vc]]
  /\ UNCHANGED <<videos, resources, transcripts, vectors, queue, fs, req, task, del, put, crs, retrieval>>

dup_w30(i) == DupStage(i, "w30", "insert", 30, "Extracting transcript", 240)

dup_insert(i) ==
  /\ dup[i].pc = "insert"
  /\ \/ /\ transcripts' = Append(transcripts, Transcript("video_id", i, dup[i].vc))
        /\ dup' = [dup EXCEPT ![i].pc = "w60"]
     \/ /\ transcripts' = transcripts
        /\ dup' = [dup EXCEPT ![i] = Raise(@, ErrDb)]
  /\ UNCHANGED <<videos, resources, vectors, queue, fs, req, task, del, put, crs, retrieval>>

dup_w60(i) == DupStage(i, "w60", "index", 60, "Indexing content for search", 180)

dup_index(i) ==
  /\ dup[i].pc = "index"
  /\ \/ /\ vectors' = add_video_content_to_rag(vectors, i)
        /\ dup' = [dup EXCEPT ![i].pc = "w80"]
     \/ /\ vectors' = vectors
        /\ dup' = [dup EXCEPT ![i] = Raise(@, ErrIndex)]
  /\ UNCHANGED <<videos, resources, transcripts, queue, fs, req, task, del, put, crs, retrieval>>

dup_w80(i) == DupStage(i, "w80", "wComplete", 80, "Processing visual content", 120)

dup_wComplete(i) ==
  /\ dup[i].pc = "wComplete"
  /\ \/ /\ videos' = update_video_status(videos, i, "COMPLETE", 100, "Processing completed", 0)
        /\ dup' = [dup EXCEPT ![i].pc = "final"]
     \/ /\ videos' = videos
        /\ dup' = [dup EXCEPT ![i] = Raise(@, ErrDb)]
  /\ UNCHANGED <<resources, transcripts, vectors, queue, fs, req, task, del, put, crs, retrieval>>

dup_final(i) ==
  /\ dup[i].pc = "final"
  /\ \/ /\ videos' = SetFinal(videos, i, 30)
        /\ dup' = [dup EXCEPT ![i].pc = "done", ![i].result = "success"]
     \/ /\ videos' = videos
        /\ dup' = [dup EXCEPT ![i] = Raise(@, ErrDb)]
  /\ UNCHANGED <<resources, transcripts, vectors, queue, fs, req, task, del, put, crs, retrieval>>

dup_wFailed(i) ==
  /\ dup[i].pc = "wFailed"
  /\ videos' = update_video_status(videos, i, "FAILED", 100, dup[i].e, 0)
  /\ dup' = [dup EXCEPT ![i].pc = "done", ![i].result = "failed"]
  /\ UNCHANGED <<resources, transcripts, vectors, queue, fs, req, task, del, put, crs, retrieval>>

\* process_video_task run a second time for the same video
process_video_task_again(i) ==
  \/ dup_lookup(i) \/ dup_w0(i) \/ dup_extract(i) \/ dup_w30(i)
  \/ dup_insert(i) \/ dup_w60(i) \/ dup_index(i) \/ dup_w80(i)
  \/ dup_wComplete(i) \/ dup_final(i) \/ dup_wFailed(i)

NextRedeliver ==
  \E i \in Ids :
    \/ upload_video(i, "local", "speech", "up")
    \/ process_video_task(i)
    \/ process_video_task_again(i)

\* the queued upload of a local video with speech, the broker up, under
\* at-least-once delivery
SpecRedeliver == Init /\ [][NextRedeliver]_vars

----------------------------------------------------------------------------
(* indexing: RAGGenerator.add_video_transcript_to_rag, add_documents *)

\* number of entries of a store whose metadata carries video id v
entries_of(store, v) == Cardinality({k \in 1..Len(store) : store[k].video_id = v})

\* the call begins: a text of n chunks (none for a blank segment)
index_begin(source, v, n) ==
  /\ idx.pc \in {"idle", "done", "failed"}
  /\ Len(vectors) + n <= MaxChunks
  /\ (source = "document") <=> (v = NoVideo)
  /\ idx' = [pc |-> "adding", source |-> source, video_id |-> v, total |-> n, next |-> 0,
             before |-> entries_of(vectors, v)]
  /\ UNCHANGED <<videos, resources, transcripts, vectors, queue, fs, req, task, mgmt,
                 module_of, found, chunked>>

\* the metadata of the entry for chunk i
metadata(source, v, i) ==
  [video_id |-> v, source |-> source,
   segment_index |-> IF source = "video_transcript" THEN i ELSE AbsentNum]

\* a collection.add that replaces the entry of the same video and chunk index
collection_add_upsert(store, entry) ==
  IF \E k \in 1..Len(store) : store[k] = entry THEN store ELSE Append(store, entry)

\* collection.add under ids=[str(uuid.uuid4())]: the key is new, an entry is added
collection_add(store, entry) == Append(store, entry)

\* one turn of the loop: get_embedding and collection.add for the next
\* chunk, or one of the two raises and the call is left
index_chunk ==
  /\ idx.pc = "adding"
  /\ idx.next < idx.total
  /\ \/ /\ vectors' = collection_add(vectors, metadata(idx.source, idx.video_id, idx.next))
        /\ idx' = [idx EXCEPT !.next = @ + 1]
     \/ /\ vectors' = vectors
        /\ idx' = [idx EXCEPT !.pc = "failed"]
  /\ UNCHANGED <<videos, resources, transcripts, queue, fs, req, task, mgmt, module_of, found, chunked>>

\* the loop is exhausted and the call returns
index_end ==
  /\ idx.pc = "adding"
  /\ idx.next = idx.total
  /\ idx' = [idx EXCEPT !.pc = "done"]
  /\ UNCHANGED <<videos, resources, transcripts, vectors, queue, fs, req, task, mgmt,
                 module_of, found, chunked>>

NextIndex ==
  \/ \E v \in VideoIds, n \in 0..MaxChunks : index_begin("video_transcript", v, n)
  \/ \E n \in 0..MaxChunks : index_begin("document", NoVideo, n)
  \/ index_chunk
  \/ index_end

\* indexing calls on the vector store, one after the other
SpecIndex == Init /\ [][NextIndex]_vars

----------------------------------------------------------------------------
(* chunking: SlideProcessor.chunk_text, TextChunker.chunk_text *)

\* a text is a sequence of characters; " " stands for any whitespace
Chars == {"a", "b", " "}
Whitespace == {" "}
Texts == UNION {[1..n -> Chars] : n \in 0..MaxText}

\* str.split(): the maximal runs of non-whitespace characters, in order
RECURSIVE split_from(_, _, _)
split_from(text, k, word) ==
  LET closed == IF word = << >> THEN << >> ELSE <<word>>
  IN  IF k > Len(text) THEN closed
      ELSE IF text[k] \in Whitespace THEN closed \o split_from(text, k + 1, << >>)
      ELSE split_from(text, k + 1, Append(word, text[k]))

split(text) == split_from(text, 1, << >>)

\* " ".join(words)
RECURSIVE join(_)
join(words) ==
  IF words = << >> THEN << >>
  ELSE IF Len(words) = 1 THEN words[1]
  ELSE words[1] \o <<" ">> \o join(Tail(words))

\* words[i:j] of Python (i from 0, j excluded, cut at the end of the list)
slice(words, i, j) == SubSeq(words, i + 1, Min(j, Len(words)))

\* range(0, n, step) as the sequence of its values
range(n, step) == [j \in 1..((n + step - 1) \div step) |-> (j - 1) * step]

\* chunk_text with windows one word too long
chunk_text_wide(text, max_words) ==
  LET words == split(text)
      starts == range(Len(words), max_words)
  IN  [j \in 1..Len(starts) |-> join(slice(words, starts[j], starts[j] + max_words + 1))]

\* SlideProcessor.chunk_text
chunk_text(text, max_words) ==
  LET words == split(text)
      starts == range(Len(words), max_words)
  IN  [j \in 1..Len(starts) |-> join(slice(words, starts[j], starts[j] + max_words))]

\* the chunker without its overlap
TextChunker_chunk_text_disjoint(text, chunk_size, chunk_overlap) ==
  chunk_text(text, chunk_size)

\* TextChunker.chunk_text: windows of chunk_size words, each beginning
\* chunk_overlap words before the end of the one before, up to the window
\* that reaches the last word
TextChunker_chunk_text(text, chunk_size, chunk_overlap) ==
  LET words == split(text)
      step == chunk_size - chunk_overlap
      count == IF Len(words) = 0 THEN 0
               ELSE IF Len(words) <= chunk_size THEN 1
               ELSE 1 + ((Len(words) - chunk_size + step - 1) \div step)
  IN  [j \in 1..count |-> join(slice(words, (j - 1) * step, (j - 1) * step + chunk_size))]

InitChunk ==
  /\ videos = << >>
  /\ resources = << >>
  /\ transcripts = << >>
  /\ vectors = << >>
  /\ queue = {}
  /\ fs = [i \in Ids |-> "missing"]
  /\ req = [i \in Ids |-> IdleReq]
  /\ task = [i \in Ids |-> IdleTask]
  /\ del = [i \in Ids |-> IdleDel]
  /\ put = [c \in Clients |-> IdlePut]
  /\ dup = [i \in Ids |-> IdleTask]
  /\ crs = IdleCourse
  /\ module_of = [v \in VideoIds |-> NoModule]
  /\ found = NoResult
  /\ idx = IdleIdx
  /\ chunked \in {[IdleChunk EXCEPT !.text = t] : t \in Texts}

slide_chunk_text(max_words) ==
  /\ chunked.pc = "idle"
  /\ chunked' = [chunked EXCEPT !.pc = "done", !.fn = "SlideProcessor",
                                !.max_words = max_words,
                                !.chunks = chunk_text(chunked.text, max_words)]
  /\ UNCHANGED <<videos, resources, transcripts, vectors, queue, fs, req, task, mgmt,
                 module_of, found, idx>>

rag_chunk_text(chunk_size, chunk_overlap) ==
  /\ chunked.pc = "idle"
  /\ chunk_overlap < chunk_size
  /\ chunked' = [chunked EXCEPT !.pc = "done", !.fn = "TextChunker",
                                !.max_words = chunk_size, !.overlap = chunk_overlap,
                                !.chunks = TextChunker_chunk_text(chunked.text, chunk_size,
                                                                  chunk_overlap)]
  /\ UNCHANGED <<videos, resources, transcripts, vectors, queue, fs, req, task, mgmt,
                 module_of, found, idx>>

NextChunk ==
  \/ \E max_words \in 1..MaxWords : slide_chunk_text(max_words)
  \/ \E chunk_size \in 1..MaxWords, chunk_overlap \in 0..MaxWords :
       rag_chunk_text(chunk_size, chunk_overlap)

\* the chunkers applied to every text of the bounded alphabet
SpecChunk == InitChunk /\ [][NextChunk]_vars

----------------------------------------------------------------------------
(* properties *)

Created == DOMAIN videos \cup DOMAIN resources

\* the persisted record of resource i, in the collection it was inserted into
Rec(i) == IF i \in DOMAIN videos THEN videos[i] ELSE resources[i]

Terminal == {"COMPLETE", "FAILED"}

HasTranscript(i) == \E k \in 1..Len(transcripts) : transcripts[k].id = i

QueuedUpload(i) == req[i].ep \in {"upload_video", "upload_resource"} /\ req[i].type = "video"

SyncUpload(i) == req[i].ep \in {"upload_video_sync", "upload_resource_sync", "upload_document_sync"}

\* C1: when .delay() fails in a queued upload, the record is FAILED with an
\* error message containing 'unavailable' by the time the call returns,
\* never left at PENDING.
C1_EnqueueFailureMarksFailed ==
  \A i \in Ids :
    (QueuedUpload(i) /\ req[i].pc = "returned" /\ req[i].e = ErrBroker)
      => /\ Rec(i).status = "FAILED"
         /\ Rec(i).error_message = Unavailable

\* C2: a video accepted by a queued upload whose task was delivered to a
\* worker reaches COMPLETE or FAILED: once the task has run to its end the
\* persisted status is terminal (nothing writes the record afterwards).
C2_DeliveredTaskEndsTerminal ==
  \A i \in Ids :
    (QueuedUpload(i) /\ task[i].pc = "done") => Rec(i).status \in Terminal

\* C3: a synchronous upload returns, with success or with an error, only
\* after the persisted status of its record is COMPLETE or FAILED.
C3_SyncReturnsTerminal ==
  \A i \in Ids :
    (SyncUpload(i) /\ req[i].pc = "returned") => Rec(i).status \in Terminal

\* C4: once COMPLETE has been written for a resource, no later step of the
\* attempt changes the status to anything else, in particular not to FAILED.
C4_CompleteStays ==
  [][\A i \in Created : Rec(i).status = "COMPLETE" => Rec(i)'.status = "COMPLETE"]_vars

\* C5: after COMPLETE or FAILED has been written for a resource, no step of
\* the attempt sets the status to PENDING or PROCESSING, and getStatus does
\* not report PENDING or PROCESSING again.
C5_NoProcessingAfterTerminal ==
  [][\A i \in Created :
       Rec(i).status \in Terminal
         => /\ Rec(i)'.status \notin {"PENDING", "PROCESSING"}
            /\ (i \in DOMAIN videos
                  => get_video_processing_status(i)'.status \notin {"PENDING", "PROCESSING"})]_vars

\* COMPLETE was written and the attempt then performed its next write (the
\* final update) and ended
C5_Witness ==
  \E i \in Ids :
    /\ i \in DOMAIN videos
    /\ task[i].pc = "done"
    /\ task[i].result = "success"
    /\ videos[i].status = "COMPLETE"
    /\ videos[i].processed_at

\* C6: when a queued attempt fails, the record ends FAILED together with the
\* failure's message, and getStatus returns that message as its error.
C6_FailedTaskKeepsMessage ==
  \A i \in Ids :
    (i \in DOMAIN videos /\ task[i].pc = "done" /\ task[i].result = "failed")
      => /\ get_video_processing_status(i).status = "FAILED"
         /\ videos[i].error_message = task[i].e
         /\ get_video_processing_status(i).error = task[i].e

\* the attempt on video i has run to its end (queued task or synchronous upload)
Finished(i) ==
  \/ task[i].pc = "done"
  \/ req[i].ep = "upload_video_sync" /\ req[i].pc = "returned"

\* the exception the attempt on video i caught, if any
Caught(i) == IF req[i].ep = "upload_video_sync" THEN req[i].e ELSE task[i].e

\* C7: a video whose file does not exist at its local storage locator ends
\* FAILED with an error mentioning 'does not exist' and without a transcript,
\* queued as well as synchronous (no database or indexing fault injected).
C7_MissingFileFails ==
  \A i \in DOMAIN videos :
    (videos[i].storage_type = "local" /\ fs[i] = "missing" /\ Finished(i)
       /\ Caught(i) \notin {ErrDb, ErrIndex})
      => /\ videos[i].status = "FAILED"
         /\ Caught(i) = ErrNotExist
         /\ ~HasTranscript(i)

\* C8: when the file exists but audio extraction or transcription fails, the
\* pipeline does not fail on it: extraction raises nothing, a placeholder
\* segment is stored and, no other stage failing, the attempt ends COMPLETE.
C8_TranscriptionFailureDegrades ==
  \A i \in DOMAIN videos :
    (videos[i].storage_type = "local" /\ fs[i] \in {"silent", "mute", "corrupt"})
      => /\ Caught(i) # ErrNotSubscript
         /\ (Finished(i) /\ Caught(i) = NoErr)
              => /\ videos[i].status = "COMPLETE"
                 /\ \E k \in 1..Len(transcripts) :
                      transcripts[k].id = i /\ transcripts[k].text = "placeholder"

C10_FailedResultMeansFailedStatus ==
  \A i \in Ids :
    /\ (task[i].e # NoErr /\ task[i].pc = "done") => task[i].result = "failed"
    /\ (task[i].pc = "done" /\ task[i].result = "failed")
         => (i \in Created /\ Rec(i).status = "FAILED")

\* C11: in a successful attempt the progress values persisted on the record
\* and returned by getStatus never decrease, and the last one, standing when
\* the attempt writes COMPLETE, is 100.
C11_ProgressEndsAt100 ==
  [][\A i \in DOMAIN videos :
       /\ (videos[i].progress # AbsentNum /\ videos'[i].progress # AbsentNum)
            => /\ videos'[i].progress >= videos[i].progress
               /\ get_video_processing_status(i)'.progress >= get_video_processing_status(i).progress
       /\ (videos[i].status # "COMPLETE" /\ videos'[i].status = "COMPLETE")
            => \/ videos[i].progress = 100
               \/ videos'[i].progress = 100
               \/ get_video_processing_status(i)'.progress = 100]_vars

\* C12: in every reachable state a record carries progress, current_step and
\* estimated_time_remaining only while its status is PROCESSING: whichever
\* write made the status non-PROCESSING removed them.
C12_TransientOnlyWhileProcessing ==
  \A i \in Created :
    Rec(i).status # "PROCESSING"
      => /\ Rec(i).progress = AbsentNum
         /\ Rec(i).current_step = AbsentStr
         /\ Rec(i).estimated_time_remaining = AbsentNum

\* a video that carried the transient fields (extraction ran after the
\* progress-0 write) has been written FAILED and has lost them
C12_Witness ==
  \E i \in DOMAIN videos :
    /\ task[i].e = ErrNotSubscript
    /\ task[i].pc = "done"
    /\ videos[i].status = "FAILED"
    /\ videos[i].progress = AbsentNum

\* C13: for every video record, getStatus returns progress, currentStep and
\* estimatedTimeRemaining exactly when the status is PROCESSING, and error
\* exactly when the status is FAILED.
C13_StatusResponseFields ==
  \A i \in DOMAIN videos :
    LET r == get_video_processing_status(i) IN
    /\ r.code = 200
    /\ r.status = videos[i].status
    /\ (r.progress # AbsentNum) <=> (videos[i].status = "PROCESSING")
    /\ (r.currentStep # AbsentStr) <=> (videos[i].status = "PROCESSING")
    /\ (r.estimatedTimeRemaining # AbsentNum) <=> (videos[i].status = "PROCESSING")
    /\ (r.error # AbsentStr) <=> (videos[i].status = "FAILED")

\* a video in PROCESSING whose record has no transient field yet: getStatus
\* answers with the defaults
C13_Witness ==
  \E i \in DOMAIN videos :
    /\ videos[i].status = "PROCESSING"
    /\ videos[i].progress = AbsentNum
    /\ get_video_processing_status(i).progress = 0
    /\ get_video_processing_status(i).currentStep = "Initializing"
    /\ get_video_processing_status(i).error = AbsentStr

\* C14: once a delete of a video or a resource has returned successfully (the
\* attempt on the record had ended before the delete began), no transcript
\* and no vector-store entry refers to that id.
C14_DeleteLeavesNothing ==
  \A i \in Ids :
    (del[i].pc = "returned" /\ del[i].code = 200 /\ del[i].quiet)
      => /\ ~HasTranscript(i)
         /\ \A k \in 1..Len(vectors) : vectors[k].video_id # i

Indexed(v) == Cardinality({k \in 1..Len(vectors) : vectors[k].video_id = v})

\* C16: the context of a module chat holds only chunks whose metadata video
\* id is the id of a video of that module; no chunk of a video outside the
\* module and no chunk without a video id is in it.
C16_ModuleChatScoped ==
  found.ep = "module_specific_chat"
    => \A k \in 1..Len(found.chunks) :
         LET v == found.chunks[k].metadata.video_id IN
         /\ v \in VideoIds
         /\ module_of[v] = found.module

\* the nearest entry belongs to a video of another module, and the chat
\* still found a chunk of its own module behind it
C16_Witness ==
  /\ found.ep = "module_specific_chat"
  /\ Len(found.chunks) >= 1
  /\ Len(vectors) >= 2
  /\ vectors[1].video_id \in VideoIds
  /\ module_of[vectors[1].video_id] \in Modules \ {found.module}

\* C17: search_video_content with a video id and top_k = k returns at most
\* min(k, number of indexed chunks of that video) results, each carrying that
\* video id, and the empty list when the video has no chunk.
C17_SearchFiltered ==
  (found.ep = "search_video_content" /\ found.video_id # NoVideo)
    => /\ Len(found.chunks) <= Min(found.top_k, Indexed(found.video_id))
       /\ \A k \in 1..Len(found.chunks) : found.chunks[k].metadata.video_id = found.video_id
       /\ Indexed(found.video_id) = 0 => found.chunks = << >>

\* the video has more chunks than top_k, the nearest entry is not one of
\* them, and the search returned top_k results
C17_Witness ==
  /\ found.ep = "search_video_content"
  /\ found.video_id # NoVideo
  /\ Indexed(found.video_id) > found.top_k
  /\ Len(found.chunks) = found.top_k
  /\ vectors[1].video_id # found.video_id

\* C18: when a document upload has reached COMPLETE and text was extracted
\* from its file, the vector store holds at least one entry for that
\* resource.
C18_CompleteDocumentIndexed ==
  \A i \in DOMAIN resources :
    (resources[i].type \in DocTypes /\ resources[i].status = "COMPLETE"
       /\ process_document(fs[i]) = "text")
      => \E k \in 1..Len(vectors) : vectors[k].video_id = i

\* C19: within one attempt on a local video the status write that announces
\* a stage precedes the stage's work: when extraction is invoked the record
\* shows progress 30 'Extracting transcript', and when indexing is invoked it
\* shows progress 60 'Indexing content for search'.
C19_StageAnnouncedBeforeWork ==
  [][\A i \in DOMAIN videos :
       /\ ( \/ task[i].pc = "extract" /\ task'[i].pc # "extract" /\ task[i].st = "local"
            \/ req[i].pc = "extract" /\ req'[i].pc # "extract" /\ req[i].st = "local" )
            => /\ videos[i].progress = 30
               /\ videos[i].current_step = "Extracting transcript"
       /\ ( \/ task[i].pc = "index" /\ task'[i].pc # "index"
            \/ req[i].pc = "index" /\ req'[i].pc # "index" )
            => /\ videos[i].progress = 60
               /\ videos[i].current_step = "Indexing content for search"]_vars

\* C20: every record whose persisted status is COMPLETE has a persisted
\* transcript; in particular a document whose text could not be extracted is
\* not COMPLETE without one.
C20_CompleteHasTranscript ==
  \A i \in Created : Rec(i).status = "COMPLETE" => HasTranscript(i)

\* C21: in every state in which the persisted status of a video is COMPLETE,
\* its processed_at timestamp and its final duration_seconds are persisted
\* as well.
C21_CompleteHasFinalFields ==
  \A i \in DOMAIN videos :
    videos[i].status = "COMPLETE"
      => /\ videos[i].processed_at
         /\ videos[i].duration_seconds = 30

\* a run of the task at a status write of its try block, and the write done
StageWrites == {<<"w0", "extract">>, <<"w30", "insert">>, <<"w60", "index">>,
                <<"w80", "wComplete">>}

\* C22: with two runs of the task for the same video, a stage write of one
\* run that comes after the other run's COMPLETE overwrites it (last writer
\* wins): the persisted status and the status getStatus returns are
\* PROCESSING again.
C22_LateWriteOverwrites ==
  [][\A i \in DOMAIN videos :
       (/\ get_video_processing_status(i).status = "COMPLETE"
        /\ \/ <<task[i].pc, task'[i].pc>> \in StageWrites
           \/ <<dup[i].pc, dup'[i].pc>> \in StageWrites)
         => /\ videos'[i].status = "PROCESSING"
            /\ get_video_processing_status(i)'.status = "PROCESSING"]_vars

\* the second run has ended with success and written COMPLETE and the final
\* fields; the first run, still under way, has since written a stage, and
\* getStatus returns PROCESSING
C22_Witness ==
  \E i \in DOMAIN videos :
    /\ dup[i].pc = "done"
    /\ dup[i].result = "success"
    /\ videos[i].processed_at
    /\ task[i].pc \in {"extract", "w30", "insert", "w60", "index", "w80", "wComplete"}
    /\ get_video_processing_status(i).status = "PROCESSING"

\* C23: when indexing a video that had no entry fails, also after some
\* chunks were added, the vector store holds no entry for that video.
C23_FailedIndexingLeavesNothing ==
  (idx.pc = "failed" /\ idx.source = "video_transcript" /\ idx.before = 0)
    => entries_of(vectors, idx.video_id) = 0

\* C24: indexing adds exactly one entry per chunk and leaves every existing
\* entry unchanged: each turn of the loop appends one entry, no other step
\* touches the store, and a finished call has raised the number of entries of
\* its video by the number of its chunks, so that a second indexing of the
\* same text doubles them.
C24_OneEntryPerChunk ==
  [][/\ Len(vectors') >= Len(vectors)
     /\ SubSeq(vectors', 1, Len(vectors)) = vectors
     /\ Len(vectors') - Len(vectors) = IF idx'.pc = "adding" /\ idx.pc = "adding"
                                       THEN idx'.next - idx.next ELSE 0
     /\ Len(vectors') - Len(vectors) \in {0, 1}
     /\ idx'.pc = "done"
          => entries_of(vectors', idx'.video_id) = idx'.before + idx'.total]_vars

\* the same two-chunk text of one video has been indexed twice: the store
\* holds both entries of each chunk
C24_Witness ==
  /\ idx.pc = "done"
  /\ idx.source = "video_transcript"
  /\ idx.total = 2
  /\ idx.before = 2
  /\ Len(vectors) = 4
  /\ vectors[1] = vectors[3]
  /\ vectors[2] = vectors[4]

\* C25: for every text and every max_words >= 1, each chunk returned by
\* SlideProcessor.chunk_text holds between 1 and max_words words; a text
\* without a word yields no chunk and a text of 1 to max_words words yields
\* exactly one.
C25_ChunkSizes ==
  (chunked.pc = "done" /\ chunked.fn = "SlideProcessor")
    => LET words == split(chunked.text)
       IN  /\ \A j \in 1..Len(chunked.chunks) :
                /\ Len(split(chunked.chunks[j])) >= 1
                /\ Len(split(chunked.chunks[j])) <= chunked.max_words
           /\ words = << >> => chunked.chunks = << >>
           /\ (1 <= Len(words) /\ Len(words) <= chunked.max_words)
                => Len(chunked.chunks) = 1

\* a text of three words cut at two words a chunk: a full chunk and a
\* shorter last one
C25_Witness ==
  /\ chunked.pc = "done"
  /\ chunked.fn = "SlideProcessor"
  /\ chunked.max_words = 2
  /\ Len(split(chunked.text)) = 3
  /\ Len(chunked.chunks) = 2
  /\ Len(split(chunked.chunks[2])) = 1

\* C26: with an overlap of k words, the first k words of each chunk equal
\* the last k words of the chunk before it.
C26_ConsecutiveChunksOverlap ==
  chunked.pc = "done"
    => \A j \in 1..(Len(chunked.chunks) - 1) :
         LET a == split(chunked.chunks[j])
             b == split(chunked.chunks[j + 1])
             k == chunked.overlap
         IN  /\ Len(a) >= k
             /\ Len(b) >= k
             /\ SubSeq(b, 1, k) = SubSeq(a, Len(a) - k + 1, Len(a))

\* three chunks of two words with one word of overlap, over a text whose
\* neighbouring words differ
C26_Witness ==
  /\ chunked.pc = "done"
  /\ chunked.fn = "TextChunker"
  /\ chunked.overlap = 1
  /\ chunked.max_words = 2
  /\ Len(chunked.chunks) = 3
  /\ split(chunked.text) = <<<<"a">>, <<"b">>, <<"a">>, <<"b">>>>

\* C27: when an upload call returns a success response, the status in the
\* response equals the persisted status of the created record at that
\* moment.
C27_ResponseStatusIsPersisted ==
  [][\A i \in Ids :
       (/\ req[i].pc # "returned"
        /\ req'[i].pc = "returned"
        /\ req'[i].code \in {200, 202}
        /\ i \in DOMAIN videos' \cup DOMAIN resources')
         => req'[i].status = Rec(i)'.status]_vars

\* C28: when a video is deleted while its processing attempt is queued or
\* running, no transcript of that video exists once both the delete and the
\* attempt have finished.
C28_DeleteDuringAttemptLeavesNoTranscript ==
  \A i \in Ids :
    (/\ del[i].ep = "delete_video"
     /\ del[i].pc = "returned"
     /\ del[i].code = 200
     /\ ~del[i].quiet
     /\ req[i].pc = "returned"
     /\ Finished(i))
      => ~HasTranscript(i)

\* C29: after delete_course has returned successfully (no attempt on a video
\* of the course was queued or running when it began), no transcript remains
\* for a video that belonged to the course.
C29_DeleteCourseLeavesNoTranscript ==
  (crs.pc = "returned" /\ crs.code = 200 /\ crs.quiet)
    => \A i \in crs.members : ~HasTranscript(i)

\* C30: when the store holds at least one chunk of a video of the module, the
\* module chat's search hands on at least one chunk of that module, however
\* the chunks of other modules rank.
C30_ModuleChatFindsModuleChunk ==
  found.ep = "module_specific_chat"
    => ((\E k \in 1..Len(vectors) :
           /\ vectors[k].video_id \in VideoIds
           /\ module_of[vectors[k].video_id] = found.module)
        => \E j \in 1..Len(found.chunks) :
             /\ found.chunks[j].metadata.video_id \in VideoIds
             /\ module_of[found.chunks[j].metadata.video_id] = found.module)

====
